---- MODULE Spec2Model ----
(***************************************************************************)
(* Model of the research / content agents of reddit-google-info-agent:    *)
(* the LangGraph turn loop (assistant node, ToolNode, tools_condition),    *)
(* the chat wrappers of Agent and RedditAgent, and the two run loggers     *)
(* (AgentLogger, ContentCreatorLogger).                                    *)
(*                                                                         *)
(* Texts are tuples of strings: "[ERROR] boom" is <<"[ERROR]", "boom">>.   *)
(* Python's None is the empty tuple; an optional number n is <<n>>.        *)
(***************************************************************************)
EXTENDS Integers, Sequences, FiniteSets, TLC

VARIABLES
    agent,      \* the agent instance under test: its class and its own logger's session id
    memory,     \* self.memory of the instance under test (.self) and of the nested research agent (.research)
    messages,   \* the graph state's "messages" channel of the run in progress
    submitted,  \* the turn sequence last handed to chat_with_tools.invoke
    pc,         \* control position: "idle", a graph node, "end", "raised", or a writer harness position
    frame,      \* call stack of the run in progress, innermost last
    rounds,     \* tool rounds completed in the run in progress
    exc,        \* str(e) of the exception being handled, "" when there is none
    run_log,    \* the run_log dict of the chat call in progress (or last finished)
    stores,     \* contents of the log files, by file name
    ret,        \* outcome of the last finished call
    nextId,     \* next tool-call id the backend hands out
    nextSid,    \* next session id uuid4 hands out
    clock,      \* wall clock
    calls,      \* top-level calls started so far
    invokes,    \* times self.agent.invoke was entered during the call in progress
    ioFault,    \* whether a log file operation failed during the call in progress
    pre,        \* memory and stores as they were when the call in progress started
    cc,         \* create_content in progress: platforms, loop index, run_log, final_result, research_results, tools invoked in the loop
    w_pc,       \* concurrent log writers: position of each writer thread
    w_local,    \* concurrent log writers: each writer's target file, session id, timestamp and loaded list
    lock,       \* holder of logger._lock, 0 when free
    truncated,  \* files opened with 'w' whose new content is not written yet
    call,       \* the logger, tool function or constructor called last on its own: its name and arguments
    config,     \* the module-level dictionaries of config.py, shared by every agent of the process
    env         \* the environment variables that are set to a non-empty value

vars == <<agent, memory, messages, submitted, pc, frame, rounds, exc, run_log,
          stores, ret, nextId, nextSid, clock, calls, invokes, ioFault, pre, cc,
          w_pc, w_local, lock, truncated, call, config, env>>

loopVars == <<messages, submitted, rounds, exc, nextId>>
writerVars == <<w_pc, w_local, lock, truncated>>
processVars == <<config, env>>

----------------------------------------------------------------------------
(* Bounds of the model. *)

MaxCalls == 2
MaxRounds == 2
MaxInvocations == 2
MaxToolCalls == 3
MaxContentCalls == 1
MaxPlatforms == 2
MaxConv == 2
NWriters == 2
MaxWrites == 2
MaxSessions == 2
MaxLimit == 2
MaxPosts == 2
MaxComments == 3
MaxTopicLen == 4
MaxConstructions == 2

----------------------------------------------------------------------------
(* Values. *)

None == <<>>

SystemPrompt == <<"system_prompt">>
DateText == <<"Today's date is">>
UserMessages == {<<"question">>}
Answers == {<<"answer">>}
Usages == {0, 7}
ToolList == <<"search_subreddits", "search_subreddit_content",
              "google_grounding_search", "get_current_date">>
ToolOutput == <<"tool output">>
BackendError == "backend unavailable"
ToolError == "tool failed"

AgentLogFile == "agent_runs.jsonl"
RedditLogFile == "reddit_agent_logs.json"
ContentLogFile == "content_creator_logs.json"
ErrorLogFile == "content_creator_errors.json"
LogFiles == {AgentLogFile, RedditLogFile, ContentLogFile, ErrorLogFile}

Turn(role, content, tool_calls, tool_call_id, name, usage) ==
    [role |-> role, content |-> content, tool_calls |-> tool_calls,
     tool_call_id |-> tool_call_id, name |-> name, usage |-> usage]

SystemMessage(content) == Turn("system", content, <<>>, 0, "", 0)
HumanMessage(content) == Turn("user", content, <<>>, 0, "", 0)
AIMessage(content, tool_calls, usage) == Turn("assistant", content, tool_calls, 0, "", usage)
ToolMessage(name, tool_call_id, content) == Turn("tool", content, <<>>, tool_call_id, name, 0)

IsPrefix(s, t) == Len(s) <= Len(t) /\ SubSeq(t, 1, Len(s)) = s

RECURSIVE SeqsUpTo(_, _)
SeqsUpTo(S, n) ==
    IF n = 0 THEN {<<>>}
    ELSE LET shorter == SeqsUpTo(S, n - 1)
         IN  shorter \cup {Append(s, x) : s \in {t \in shorter : Len(t) = n - 1}, x \in S}

----------------------------------------------------------------------------
(* The turn loop: assistant node, tools_condition, ToolNode. *)

\* the reducer of the "messages" channel: new turns go after the old ones
add_messages(left, right) == left \o right

\* mutant: the assistant node submits the state as it is
assistant_as_is(state_messages) == state_messages

\* what the assistant node hands to the backend
assistant(state_messages) ==
    IF state_messages = <<>> \/ state_messages[1].role # "system"
    THEN <<SystemMessage(SystemPrompt)>> \o state_messages
    ELSE state_messages

\* the tool-call lists a backend reply may carry: the first n bound tools, n >= 1,
\* with ids fresh from id0, as long as the model's budgets allow
ToolCallLists(id0, done_rounds) ==
    {[i \in 1..n |-> [name |-> ToolList[i], id |-> id0 + i - 1]] :
        n \in {m \in 1..MaxCalls : /\ m <= Len(ToolList)
                                   /\ done_rounds < MaxRounds
                                   /\ id0 + m - 1 <= MaxToolCalls}}

\* the replies of chat_with_tools.invoke: a final answer, or a request for tools
BackendReplies(id0, done_rounds) ==
    {AIMessage(a, <<>>, u) : a \in Answers, u \in Usages}
    \cup {AIMessage(<<>>, tcs, 0) : tcs \in ToolCallLists(id0, done_rounds)}

\* mutant: the edge stops the loop once one tool round has been run
tools_condition_capped(state_messages) ==
    IF /\ state_messages[Len(state_messages)].tool_calls # <<>>
       /\ \A i \in 1..Len(state_messages) : state_messages[i].role # "tool"
    THEN "tools" ELSE "end"

\* the conditional edge after the assistant node
tools_condition(state_messages) ==
    IF state_messages[Len(state_messages)].tool_calls # <<>> THEN "tools" ELSE "end"

\* mutant: only the first requested call is executed
ToolNode_first_only(state_messages) ==
    LET requested == state_messages[Len(state_messages)].tool_calls
    IN  <<ToolMessage(requested[1].name, requested[1].id, ToolOutput)>>

\* mutant: the results come back in the reverse order of the requests
ToolNode_reversed(state_messages) ==
    LET requested == state_messages[Len(state_messages)].tool_calls
        n == Len(requested)
    IN  [i \in 1..n |->
            ToolMessage(requested[n + 1 - i].name, requested[n + 1 - i].id, ToolOutput)]

\* one tool-result turn per requested call, in the order of the requests
ToolNode(state_messages) ==
    LET requested == state_messages[Len(state_messages)].tool_calls
    IN  [i \in 1..Len(requested) |->
            ToolMessage(requested[i].name, requested[i].id, ToolOutput)]

graph_invoke(input_messages) == add_messages(<<>>, input_messages)

AssistantStep ==
    /\ pc = "assistant"
    /\ submitted' = assistant(messages)
    /\ \/ \E reply \in BackendReplies(nextId, rounds) :
            /\ messages' = add_messages(messages, <<reply>>)
            /\ nextId' = nextId + Len(reply.tool_calls)
            /\ pc' = tools_condition(messages')
            /\ exc' = exc
       \/ /\ pc' = "raised"
          /\ exc' = BackendError
          /\ UNCHANGED <<messages, nextId>>
    /\ UNCHANGED <<agent, memory, frame, rounds, run_log, stores, ret, nextSid,
                   clock, calls, invokes, ioFault, pre, cc, writerVars, call, processVars>>

ToolsStep ==
    /\ pc = "tools"
    /\ \/ /\ messages' = add_messages(messages, ToolNode(messages))
          /\ rounds' = rounds + 1
          /\ pc' = "assistant"
          /\ exc' = exc
       \/ /\ pc' = "raised"
          /\ exc' = ToolError
          /\ UNCHANGED <<messages, rounds>>
    /\ UNCHANGED <<agent, memory, submitted, frame, run_log, stores, ret, nextId,
                   nextSid, clock, calls, invokes, ioFault, pre, cc, writerVars, call, processVars>>

----------------------------------------------------------------------------
(* The two run loggers. *)

\* AgentLogger.log_run: the run dict gets its timestamp, then goes to the end of the file
log_run(lines, run_data, now) == Append(lines, run_data @@ [timestamp |-> now])

\* a _write_log that writes back only the new entry
_write_log_entry_only(logs, session_id, data, log_type, now) ==
    <<[timestamp |-> now, session_id |-> session_id, log_type |-> log_type, data |-> data]>>

\* a _write_log that stamps the entry with the session id of the agent's own logger
_write_log_own_session(logs, session_id, data, log_type, now) ==
    Append(logs, [timestamp |-> now, session_id |-> agent.session_id,
                  log_type |-> log_type, data |-> data])

\* ContentCreatorLogger._write_log: load the list, append one entry, write the list back
_write_log(logs, session_id, data, log_type, now) ==
    Append(logs, [timestamp |-> now, session_id |-> session_id,
                  log_type |-> log_type, data |-> data])

\* how a log file operation can end: it works, the file cannot be read or written
\* (caught inside _write_log), or the logs directory / file cannot be created
\* (raised by the ContentCreatorLogger constructor, outside any handler)
IOOutcomes == {"ok", "file_error", "dir_error"}

\* logging.enabled of REDDIT_AGENT_CONFIG
reddit_logging_enabled == TRUE

OSErrorText == "OSError"

----------------------------------------------------------------------------
(* Agent.chat and RedditAgent.chat. *)

AgentRunLog(message) ==
    [user_message |-> message, tool_calls |-> <<>>, error |-> None,
     token_usage |-> None, latency |-> None]

RedditRunLog(message) ==
    [user_message |-> message, tool_calls |-> <<>>, error |-> None,
     token_usage |-> None, latency |-> None, success |-> FALSE]

\* a prologue that appends the user turn only
chat_prologue_user_only(mem, message) == Append(mem, HumanMessage(message))

\* a prologue that starts the conversation over from the system prompt
chat_prologue_fresh(mem, message) ==
    <<mem[1], SystemMessage(DateText), HumanMessage(message)>>

\* the turns chat appends to self.memory before the run
chat_prologue(mem, message) ==
    mem \o <<SystemMessage(DateText), HumanMessage(message)>>

\* an epilogue that remembers the run's tool results together with the answer
chat_remember_with_tools(mem, result_messages) ==
    mem \o SelectSeq(SubSeq(result_messages, Len(mem) + 1, Len(result_messages)),
                     LAMBDA m : m.role = "tool" \/ m.tool_calls = <<>>)

\* an epilogue that keeps the whole returned sequence as the memory
chat_remember_all(mem, result_messages) == result_messages

\* self.memory.append(agent_response)
chat_remember(mem, result_messages) ==
    Append(mem, result_messages[Len(result_messages)])

\* the ToolMessage objects of the returned sequence, as logged
logged_tool_calls(result_messages) ==
    LET tms == SelectSeq(result_messages, LAMBDA m : m.role = "tool")
    IN  [i \in 1..Len(tms) |->
            [tool_name |-> tms[i].name, tool_call_id |-> tms[i].tool_call_id,
             content |-> tms[i].content]]

token_usage_of(agent_response) ==
    IF agent_response.usage # 0 THEN <<agent_response.usage>> ELSE None

\* the try block of Agent.chat after the graph returned
AgentChatTry(rl, result_messages) ==
    LET agent_response == result_messages[Len(result_messages)]
    IN  [rl EXCEPT !.tool_calls = logged_tool_calls(result_messages),
                   !.token_usage = token_usage_of(agent_response)]
        @@ [agent_response |-> agent_response.content]

\* the try block of RedditAgent.chat after the graph returned
RedditChatTry(rl, result_messages) ==
    LET agent_response == result_messages[Len(result_messages)]
    IN  [rl EXCEPT !.tool_calls = logged_tool_calls(result_messages),
                   !.token_usage = token_usage_of(agent_response),
                   !.success = TRUE]
        @@ [agent_response |-> agent_response.content]

\* an except block that answers with the error text but does not record the trace
ChatExcept_answer_only(rl, e) == rl @@ [agent_response |-> <<"[ERROR]", e>>]

\* the except block of both chat methods
ChatExcept(rl, e) ==
    [rl EXCEPT !.error = <<"Traceback", e>>] @@ [agent_response |-> <<"[ERROR]", e>>]

\* the finally block up to the logger call
ChatFinally(rl) == [rl EXCEPT !.latency = <<"seconds">>]

Returned(value) == [status |-> "returned", value |-> value]
Raised(e) == [status |-> "raised", value |-> <<e>>]
NoOutcome == [status |-> "none", value |-> None]

\* the instance whose chat is running: the one under test, or the nested research agent
Inst == IF Len(frame) = 1 THEN "self" ELSE "research"
InstKind == IF Len(frame) = 1 THEN agent.kind ELSE "Reddit"

ChatStart ==
    /\ pc = "idle"
    /\ agent.kind \in {"Agent", "Reddit"}
    /\ calls < MaxInvocations
    /\ \E message \in UserMessages :
        /\ memory' = [memory EXCEPT !.self = chat_prologue(@, message)]
        /\ run_log' = IF agent.kind = "Agent" THEN AgentRunLog(message)
                      ELSE RedditRunLog(message)
    /\ messages' = graph_invoke(memory'.self)
    /\ pc' = "assistant"
    /\ frame' = <<"chat">>
    /\ rounds' = 0
    /\ exc' = ""
    /\ invokes' = 1
    /\ calls' = calls + 1
    /\ ioFault' = FALSE
    /\ pre' = [memory |-> memory.self, stores |-> stores]
    /\ ret' = NoOutcome
    /\ UNCHANGED <<agent, submitted, stores, nextId, nextSid, clock, cc, writerVars, call, processVars>>

ChatFinish ==
    /\ pc \in {"end", "raised"}
    /\ frame # <<>>
    /\ frame[Len(frame)] = "chat"
    /\ LET rl1 == IF pc = "raised" THEN ChatExcept(run_log, exc)
                  ELSE IF InstKind = "Agent" THEN AgentChatTry(run_log, messages)
                  ELSE RedditChatTry(run_log, messages)
           rl2 == ChatFinally(rl1)
       IN  /\ memory' = IF pc = "end"
                        THEN [memory EXCEPT ![Inst] = chat_remember(@, messages)]
                        ELSE memory
           /\ \E io \in IOOutcomes :
                /\ ioFault' = (ioFault \/ io # "ok")
                /\ IF InstKind = "Agent"
                   THEN /\ run_log' = rl2 @@ [timestamp |-> clock]
                        /\ nextSid' = nextSid
                        /\ stores' = IF io = "ok"
                                     THEN [stores EXCEPT ![AgentLogFile] = log_run(@, rl2, clock)]
                                     ELSE stores
                        /\ ret' = IF io = "ok" THEN Returned(rl2.agent_response)
                                  ELSE Raised(OSErrorText)
                   ELSE /\ run_log' = rl2
                        /\ nextSid' = IF reddit_logging_enabled THEN nextSid + 1 ELSE nextSid
                        /\ stores' = IF reddit_logging_enabled /\ io = "ok"
                                     THEN [stores EXCEPT ![RedditLogFile] =
                                             _write_log(@, nextSid, rl2, "reddit_agent_run", clock)]
                                     ELSE stores
                        /\ ret' = IF reddit_logging_enabled /\ io = "dir_error"
                                  THEN Raised(OSErrorText)
                                  ELSE Returned(rl2.agent_response)
    /\ clock' = clock + 1
    /\ frame' = SubSeq(frame, 1, Len(frame) - 1)
    /\ pc' = IF Len(frame) = 1 THEN "idle" ELSE "researched"
    /\ UNCHANGED <<agent, loopVars, calls, invokes, pre, cc, writerVars, call, processVars>>

----------------------------------------------------------------------------
(* ContentCreatorAgent.create_content. *)

\* logging settings of CONTENT_CREATOR_CONFIG
content_logging_enabled == TRUE

\* the value .get("log_errors", True) has when the configuration lacks the key
log_errors_default == TRUE

log_errors == FALSE
separate_error_log == TRUE

PlatformNames == {"youtube", "article", "x", "podcast", "YouTube"}
Topic == <<"topic">>
ContentType == <<"educational">>
Tone == <<"engaging">>
ValidationErrorText == "ValidationError"

EmptyMap == <<>>

\* a dict assignment that starts a new dict
MapPut_alone(m, k, v) == (k :> v)

\* m[k] = v on a dict
MapPut(m, k, v) == (k :> v) @@ m

\* no logger or tool function has been called on its own
NoCall == [op |-> "none"]

NoContentCall ==
    [platforms |-> <<>>, idx |-> 0, run_log |-> [user_message |-> None],
     final_result |-> [topic |-> None], research_results |-> None, invoked |-> <<>>]

ContentRunLog(platforms) ==
    [user_message |-> <<"Create">> \o platforms \o <<"content about">> \o Topic,
     topic |-> Topic, platforms |-> platforms, content_type |-> ContentType,
     duration |-> None, tone |-> Tone, tool_calls |-> <<>>, files_saved |-> <<>>,
     token_usage |-> <<0>>, latency |-> None, success |-> FALSE]

\* a final_result that starts with an entry left over from elsewhere
NewFinalResult_leftover(current_date) ==
    [topic |-> Topic, content_type |-> ContentType, tone |-> Tone,
     generated_at |-> current_date, content |-> ("tiktok" :> <<"generated for", "tiktok">>),
     files |-> EmptyMap]

NewFinalResult(current_date) ==
    [topic |-> Topic, content_type |-> ContentType, tone |-> Tone,
     generated_at |-> current_date, content |-> EmptyMap, files |-> EmptyMap]

ResearchPrompt(platforms) == <<"research_prompt">> \o Topic \o platforms

\* what research_topic_for_content returns, given how research_agent.chat ended
research_topic_for_content(chat_outcome) ==
    IF chat_outcome.status = "returned"
    THEN <<"Research Results for">> \o Topic \o chat_outcome.value
    ELSE <<"Error during research:">> \o chat_outcome.value

ResearchCallData(platforms, results) ==
    [topic |-> Topic, platform_focus |-> platforms, results_length |-> Len(results),
     results_preview |-> results, latency |-> <<"seconds">>, success |-> TRUE]

ResearchErrorData(platforms, error_msg) ==
    [error_type |-> "research_error", topic |-> Topic, platform_focus |-> platforms,
     error |-> error_msg, latency |-> <<"seconds">>]

ContentErrorData(platforms, e) ==
    [error_type |-> "content_creation_error", topic |-> Topic, platforms |-> platforms,
     content_type |-> ContentType, error |-> <<e>>, traceback |-> <<"Traceback", e>>,
     latency |-> <<"seconds">>]

\* a static logging method after its constructor call succeeded: _write_log
\* appends the entry, or swallows the file error
static_log(st, file, session_id, data, log_type, now, io) ==
    IF io = "ok" THEN [st EXCEPT ![file] = _write_log(@, session_id, data, log_type, now)]
    ELSE st

\* _log_error_separately: constructs a logger on error_log_file (ioA), then calls the
\* static log_error, which constructs a logger on the default file and writes there (ioB)
_log_error_separately(st, sid, now, error_data, ioA, ioB) ==
    IF ~(content_logging_enabled /\ separate_error_log)
    THEN [raised |-> FALSE, stores |-> st, sids |-> 0]
    ELSE IF ioA = "dir_error" THEN [raised |-> TRUE, stores |-> st, sids |-> 1]
    ELSE IF ioB = "dir_error" THEN [raised |-> TRUE, stores |-> st, sids |-> 2]
    ELSE [raised |-> FALSE,
          stores |-> static_log(st, ContentLogFile, sid + 1, error_data, "error", now, ioB),
          sids |-> 2]

\* a finally block that logs the run whenever logging is enabled
should_log_run_always(success) == content_logging_enabled

\* the condition guarding log_content_creation in the finally block
should_log_run(success) == content_logging_enabled /\ (success \/ log_errors)

\* a platform test that ignores case
IsKnownPlatform_nocase(platform) ==
    platform \in {"youtube", "tiktok", "article", "x", "YouTube"}

IsKnownPlatform(platform) == platform \in {"youtube", "tiktok", "article", "x"}

\* the generation tool the if/elif chain invokes for a platform, "" for none
GenerationTool(platform) ==
    IF ~IsKnownPlatform(platform) THEN ""
    ELSE IF platform = "article" THEN "generate_article"
    ELSE IF platform = "x" THEN "generate_x_thread"
    ELSE "generate_platform_content"

\* how a generation tool call can end for a platform
GenOutcomes(platform) ==
    IF IsKnownPlatform(platform) THEN {"text", "empty", "raise"} ELSE {"skipped"}

GeneratedText(platform, gen) ==
    IF gen = "text" THEN <<"generated for", platform>> ELSE <<>>

OutputFolder(platform) ==
    IF platform = "article" THEN "articles"
    ELSE IF platform = "x" THEN "x_threads"
    ELSE "output"

Extension(platform) == IF platform = "article" THEN ".md" ELSE ".txt"

SaveOutcomes == {"saved", "error", "raise"}

\* os.path.join(folder, f"{timestamp}_{sanitized_topic}{ext}")
file_path(folder, platform, now) == <<folder, now, "topic", Extension(platform)>>

\* the string save_content_to_file returns
save_content_to_file(folder, platform, now, sv) ==
    IF sv = "saved"
    THEN <<"Successfully saved content to">> \o file_path(folder, platform, now)
    ELSE <<"Error saving file:", OSErrorText>>

ContentStart ==
    /\ pc = "idle"
    /\ agent.kind = "Content"
    /\ calls < MaxContentCalls
    /\ \E platforms \in SeqsUpTo(PlatformNames, MaxPlatforms), io \in {"ok", "dir_error"} :
        /\ cc' = [platforms |-> platforms, idx |-> 1, run_log |-> ContentRunLog(platforms),
                  final_result |-> NewFinalResult(clock), research_results |-> None,
                  invoked |-> <<>>]
        /\ IF io = "ok"
           THEN \* RedditAgent() is constructed and research_agent.chat starts
                /\ memory' = [self |-> Append(memory.self, SystemMessage(DateText)),
                              research |-> chat_prologue(<<SystemMessage(SystemPrompt)>>,
                                                         ResearchPrompt(platforms))]
                /\ run_log' = RedditRunLog(ResearchPrompt(platforms))
                /\ messages' = graph_invoke(memory'.research)
                /\ pc' = "assistant"
                /\ frame' = <<"create_content", "chat">>
                /\ ret' = NoOutcome
                /\ invokes' = 1
           ELSE \* RedditAgent() raises inside the tool's try block
                /\ memory' = [memory EXCEPT !.self = Append(@, SystemMessage(DateText))]
                /\ ret' = Raised(OSErrorText)
                /\ pc' = "researched"
                /\ frame' = <<"create_content">>
                /\ invokes' = 0
                /\ UNCHANGED <<run_log, messages>>
        /\ ioFault' = (io # "ok")
    /\ nextSid' = nextSid + 1
    /\ rounds' = 0
    /\ exc' = ""
    /\ calls' = calls + 1
    /\ pre' = [memory |-> memory.self, stores |-> stores]
    /\ UNCHANGED <<agent, submitted, stores, nextId, clock, writerVars, call, processVars>>

\* research_topic after the tool returned, and the memory.append that follows it
ContentResearched ==
    /\ pc = "researched"
    /\ \E io1 \in IOOutcomes, ioA \in {"ok", "dir_error"}, ioB \in IOOutcomes :
        LET results == research_topic_for_content(ret)
            log_raised == content_logging_enabled /\ io1 = "dir_error"
            error_msg == <<"Research error:", OSErrorText>>
            errlog == _log_error_separately(stores, nextSid + 1, clock,
                                            ResearchErrorData(cc.platforms, error_msg), ioA, ioB)
            research_results == IF log_raised THEN error_msg ELSE results
        IN  /\ ~log_raised => (ioA = "ok" /\ ioB = "ok")
            /\ ioFault' = (ioFault \/ io1 # "ok" \/ ioA # "ok" \/ ioB # "ok")
            /\ stores' = IF ~content_logging_enabled THEN stores
                         ELSE IF log_raised THEN errlog.stores
                         ELSE static_log(stores, ContentLogFile, nextSid,
                                         ResearchCallData(cc.platforms, results),
                                         "research", clock, io1)
            /\ nextSid' = IF ~content_logging_enabled THEN nextSid
                          ELSE IF log_raised THEN nextSid + 1 + errlog.sids
                          ELSE nextSid + 1
            /\ IF log_raised /\ errlog.raised
               THEN /\ pc' = "cc_except"
                    /\ exc' = OSErrorText
                    /\ UNCHANGED <<memory, cc>>
               ELSE /\ pc' = "platforms"
                    /\ exc' = exc
                    /\ cc' = [cc EXCEPT !.research_results = research_results]
                    /\ memory' = [memory EXCEPT !.self =
                            Append(@, SystemMessage(<<"Research summary for">> \o Topic
                                                    \o research_results))]
    /\ clock' = clock + 1
    /\ UNCHANGED <<agent, messages, submitted, frame, rounds, run_log, ret, nextId,
                   calls, invokes, pre, writerVars, call, processVars>>

\* one iteration of the loop over the requested platforms
ContentPlatform ==
    /\ pc = "platforms"
    /\ cc.idx <= Len(cc.platforms)
    /\ LET platform == cc.platforms[cc.idx]
       IN  \E gen \in GenOutcomes(platform), sv \in SaveOutcomes :
            LET content == GeneratedText(platform, gen)
                save_path == save_content_to_file(OutputFolder(platform), platform, clock, sv)
                generated == IF GenerationTool(platform) = "" THEN cc
                             ELSE [cc EXCEPT !.invoked = Append(@, GenerationTool(platform))]
                with_content == [generated EXCEPT
                                    !.final_result.content = MapPut(@, platform, content),
                                    !.invoked = Append(@, "save_content_to_file")]
            IN  /\ content = <<>> => sv = "saved"
                /\ IF gen = "raise"
                   THEN /\ pc' = "cc_except"
                        /\ exc' = ValidationErrorText
                        /\ cc' = generated
                   ELSE IF content = <<>>
                   THEN /\ pc' = pc
                        /\ exc' = exc
                        /\ cc' = [generated EXCEPT !.idx = @ + 1]
                   ELSE IF sv = "raise"
                   THEN /\ pc' = "cc_except"
                        /\ exc' = ValidationErrorText
                        /\ cc' = with_content
                   ELSE /\ pc' = pc
                        /\ exc' = exc
                        /\ cc' = [with_content EXCEPT
                                    !.final_result.files = MapPut(@, platform, save_path),
                                    !.run_log.files_saved = Append(@, save_path),
                                    !.idx = @ + 1]
    /\ clock' = clock + 1
    /\ UNCHANGED <<agent, memory, messages, submitted, frame, rounds, run_log, stores,
                   ret, nextId, nextSid, calls, invokes, ioFault, pre, writerVars, call, processVars>>

\* the end of the try block or the except block, then the finally block and the return
ContentFinish ==
    /\ \/ pc = "platforms" /\ cc.idx > Len(cc.platforms)
       \/ pc = "cc_except"
    /\ \E ioA \in {"ok", "dir_error"}, ioB \in IOOutcomes, ioC \in IOOutcomes :
        LET failed == pc = "cc_except"
            errlog == IF failed
                      THEN _log_error_separately(stores, nextSid, clock,
                                                 ContentErrorData(cc.platforms, exc), ioA, ioB)
                      ELSE [raised |-> FALSE, stores |-> stores, sids |-> 0]
            handled == failed /\ ~errlog.raised
            final_result == IF handled THEN cc.final_result @@ [error |-> <<exc>>]
                            ELSE cc.final_result
            rl1 == IF ~failed
                   THEN [cc.run_log EXCEPT !.success = TRUE]
                        @@ [agent_response |-> <<"Generated content for">> \o cc.platforms,
                            generated_content |-> final_result]
                   ELSE IF handled /\ log_errors
                   THEN cc.run_log @@ [error |-> <<exc>>, agent_response |-> <<"[ERROR]", exc>>]
                   ELSE cc.run_log
            rl2 == [rl1 EXCEPT !.latency = <<"seconds">>]
            logs_run == should_log_run(rl2.success)
        IN  /\ ~failed => (ioA = "ok" /\ ioB = "ok")
            /\ (failed /\ ioA = "dir_error") => ioB = "ok"
            /\ ~logs_run => ioC = "ok"
            /\ ioFault' = (ioFault \/ ioA # "ok" \/ ioB # "ok" \/ ioC # "ok")
            /\ cc' = [cc EXCEPT !.run_log = rl2, !.final_result = final_result]
            /\ stores' = IF logs_run
                         THEN static_log(errlog.stores, ContentLogFile, nextSid + errlog.sids,
                                         rl2, "content_creation", clock, ioC)
                         ELSE errlog.stores
            /\ nextSid' = nextSid + errlog.sids + (IF logs_run THEN 1 ELSE 0)
            /\ ret' = IF errlog.raised \/ (logs_run /\ ioC = "dir_error")
                      THEN Raised(OSErrorText)
                      ELSE Returned(final_result)
    /\ pc' = "idle"
    /\ frame' = <<>>
    /\ clock' = clock + 1
    /\ UNCHANGED <<agent, memory, loopVars, run_log, calls, invokes, pre, writerVars, call, processVars>>

----------------------------------------------------------------------------
(* The process-wide configuration of config.py and the environment. *)

RequiredEnvVars == {"GEMINI_API_KEY", "REDDIT_CLIENT_ID", "REDDIT_CLIENT_SECRET"}

\* the order of SHARED_CONFIG["environment"]["required_env_vars"]
required_env_vars == <<"GEMINI_API_KEY", "REDDIT_CLIENT_ID", "REDDIT_CLIENT_SECRET">>

\* the entries of REDDIT_AGENT_CONFIG and CONTENT_CREATOR_CONFIG that presets
\* patch, as they are after import; temperatures in tenths
DefaultConfig ==
    [reddit_agent |-> [temperature |-> 4],
     content_creator |-> [temperature |-> 7,
                          system_prompt |-> "content creator prompt",
                          content_generation_prompt |-> "content generation prompt"]]

PresetNames == {"viral_focused", "educational_focused", "conservative", "creative"}

\* PRESETS, with "model" and "tool_prompts" flattened to the keys they update
PRESETS ==
    [name \in PresetNames |->
        CASE name = "viral_focused" ->
                [content_creator |->
                    [temperature |-> 8,
                     system_prompt |-> "content creator prompt + viral focus",
                     content_generation_prompt |-> "content generation prompt + viral focus"]]
          [] name = "educational_focused" ->
                [content_creator |->
                    [temperature |-> 5,
                     system_prompt |-> "content creator prompt + educational focus",
                     content_generation_prompt |->
                        "content generation prompt + educational focus"]]
          [] name = "conservative" ->
                [reddit_agent |-> [temperature |-> 2],
                 content_creator |-> [temperature |-> 4]]
          [] name = "creative" ->
                [reddit_agent |-> [temperature |-> 6],
                 content_creator |->
                    [temperature |-> 9,
                     content_generation_prompt |-> "content generation prompt + creative focus"]]]

\* an apply_preset that leaves the shared dictionaries as they are
apply_preset_nowhere(cfg, preset_name) == cfg

\* apply_preset for a preset of PRESETS: the sections of the preset are written
\* into the module-level dictionaries
apply_preset(cfg, preset_name) ==
    LET preset == PRESETS[preset_name]
    IN  [section \in DOMAIN cfg |->
            IF section \in DOMAIN preset THEN preset[section] @@ cfg[section]
            ELSE cfg[section]]

----------------------------------------------------------------------------
(* Specifications. *)

NoLocal == [target |-> "", session_id |-> 0, timestamp |-> 0, logs |-> <<>>]

NoWriters == /\ w_pc = [w \in 1..NWriters |-> "off"]
             /\ w_local = [w \in 1..NWriters |-> NoLocal]
             /\ lock = 0
             /\ truncated = {}

AgentInstances ==
    {[kind |-> "Agent", session_id |-> 0], [kind |-> "Reddit", session_id |-> 1],
     [kind |-> "Content", session_id |-> 1]}

\* the state after constructing one agent of one of the three classes
Init ==
    /\ agent \in AgentInstances
    /\ memory = [self |-> <<SystemMessage(SystemPrompt)>>, research |-> <<>>]
    /\ messages = <<>>
    /\ submitted = <<>>
    /\ pc = "idle"
    /\ frame = <<>>
    /\ rounds = 0
    /\ exc = ""
    /\ run_log = [user_message |-> None]
    /\ stores = [f \in LogFiles |-> <<>>]
    /\ ret = NoOutcome
    /\ nextId = 1
    /\ nextSid = agent.session_id + 1
    /\ clock = 1
    /\ calls = 0
    /\ invokes = 0
    /\ ioFault = FALSE
    /\ pre = [memory |-> memory.self, stores |-> stores]
    /\ cc = NoContentCall
    /\ call = NoCall
    /\ config = DefaultConfig
    /\ env = RequiredEnvVars
    /\ NoWriters

Next ==
    \/ ChatStart \/ AssistantStep \/ ToolsStep \/ ChatFinish
    \/ ContentStart \/ ContentResearched \/ ContentPlatform \/ ContentFinish

Spec == Init /\ [][Next]_vars

\* one Agent or RedditAgent, called through chat only
InitChat == Init /\ agent.kind \in {"Agent", "Reddit"}

NextChat == ChatStart \/ AssistantStep \/ ToolsStep \/ ChatFinish

SpecChat == InitChat /\ [][NextChat]_vars

\* the compiled graph invoked on its own with an arbitrary conversation
InitialTurns ==
    {SystemMessage(SystemPrompt), SystemMessage(DateText)}
    \cup {HumanMessage(m) : m \in UserMessages}
    \cup {AIMessage(a, <<>>, 0) : a \in Answers}

InitLoop ==
    /\ agent = [kind |-> "Agent", session_id |-> 0]
    /\ memory = [self |-> <<SystemMessage(SystemPrompt)>>, research |-> <<>>]
    /\ \E conversation \in SeqsUpTo(InitialTurns, MaxConv) :
            messages = graph_invoke(conversation)
    /\ submitted = <<>>
    /\ pc = "assistant"
    /\ frame = <<"graph">>
    /\ rounds = 0
    /\ exc = ""
    /\ run_log = [user_message |-> None]
    /\ stores = [f \in LogFiles |-> <<>>]
    /\ ret = NoOutcome
    /\ nextId = 1
    /\ nextSid = 1
    /\ clock = 1
    /\ calls = 0
    /\ invokes = 1
    /\ ioFault = FALSE
    /\ pre = [memory |-> memory.self, stores |-> stores]
    /\ cc = NoContentCall
    /\ call = NoCall
    /\ config = DefaultConfig
    /\ env = RequiredEnvVars
    /\ NoWriters

NextLoop == AssistantStep \/ ToolsStep

SpecLoop == InitLoop /\ [][NextLoop]_vars

----------------------------------------------------------------------------
(* Concurrent writers: NWriters threads, each making one static logging call. *)

Writers == 1..NWriters
WriterTargets == {AgentLogFile, RedditLogFile, ContentLogFile}
WriterData(w) == [user_message |-> <<"run of writer", w>>]
LogTypeOf(file) == IF file = RedditLogFile THEN "reddit_agent_run" ELSE "content_creation"

otherVars == <<agent, memory, messages, submitted, pc, frame, rounds, exc, run_log,
               ret, nextId, calls, invokes, ioFault, pre, cc, call, config, env>>

\* AgentLogger.log_run, first statement: the timestamp is taken before the lock
W_Stamp(w) ==
    /\ w_pc[w] = "start"
    /\ w_local[w].target = AgentLogFile
    /\ w_local' = [w_local EXCEPT ![w].timestamp = clock]
    /\ clock' = clock + 1
    /\ w_pc' = [w_pc EXCEPT ![w] = "stamped"]
    /\ UNCHANGED <<otherVars, stores, nextSid, lock, truncated>>

\* with _lock:
W_Acquire(w) ==
    /\ w_pc[w] = "stamped"
    /\ lock = 0
    /\ lock' = w
    /\ w_pc' = [w_pc EXCEPT ![w] = "locked"]
    /\ UNCHANGED <<otherVars, stores, nextSid, clock, w_local, truncated>>

\* open(LOG_FILE, 'a'); f.write(line); leaving the with block frees the lock
W_Append(w) ==
    /\ w_pc[w] = "locked"
    /\ stores' = [stores EXCEPT ![AgentLogFile] =
                    Append(@, WriterData(w) @@ [timestamp |-> w_local[w].timestamp])]
    /\ lock' = 0
    /\ w_pc' = [w_pc EXCEPT ![w] = "done"]
    /\ UNCHANGED <<otherVars, nextSid, clock, w_local, truncated>>

\* logger = ContentCreatorLogger(file): a fresh session id; the file exists already
W_Construct(w) ==
    /\ w_pc[w] = "start"
    /\ w_local[w].target # AgentLogFile
    /\ w_local' = [w_local EXCEPT ![w].session_id = nextSid]
    /\ nextSid' = nextSid + 1
    /\ w_pc' = [w_pc EXCEPT ![w] = "constructed"]
    /\ UNCHANGED <<otherVars, stores, clock, lock, truncated>>

\* _write_log: json.load of the whole file, then the entry is built; a file that
\* another writer has truncated does not parse, and the except branch drops the entry
W_Load(w) ==
    /\ w_pc[w] = "constructed"
    /\ IF w_local[w].target \in truncated
       THEN /\ w_pc' = [w_pc EXCEPT ![w] = "done"]
            /\ UNCHANGED <<w_local, clock>>
       ELSE /\ w_pc' = [w_pc EXCEPT ![w] = "loaded"]
            /\ w_local' = [w_local EXCEPT ![w].logs = stores[w_local[w].target],
                                          ![w].timestamp = clock]
            /\ clock' = clock + 1
    /\ UNCHANGED <<otherVars, stores, nextSid, lock, truncated>>

\* _write_log: open(self.log_path, 'w') empties the file
W_Open(w) ==
    /\ w_pc[w] = "loaded"
    /\ stores' = [stores EXCEPT ![w_local[w].target] = <<>>]
    /\ truncated' = truncated \cup {w_local[w].target}
    /\ w_pc' = [w_pc EXCEPT ![w] = "opened"]
    /\ UNCHANGED <<otherVars, nextSid, clock, w_local, lock>>

\* _write_log: json.dump of the loaded list plus the new entry, from offset 0.
\* A writer whose file was written by another writer since it opened it writes
\* over that text: the result parses only if the new text is at least as long.
W_Dump(w) ==
    /\ w_pc[w] \in {"opened", "overlaid"}
    /\ LET f == w_local[w].target
           written == _write_log(w_local[w].logs, w_local[w].session_id, WriterData(w),
                                 LogTypeOf(f), w_local[w].timestamp)
       IN  /\ \/ /\ stores' = [stores EXCEPT ![f] = written]
                 /\ truncated' = truncated \ {f}
              \/ /\ w_pc[w] = "overlaid"
                 /\ stores' = [stores EXCEPT ![f] = <<>>]
                 /\ truncated' = truncated \cup {f}
           /\ w_pc' = [x \in Writers |->
                         IF x = w THEN "done"
                         ELSE IF w_pc[x] = "opened" /\ w_local[x].target = f THEN "overlaid"
                         ELSE w_pc[x]]
    /\ UNCHANGED <<otherVars, nextSid, clock, w_local, lock>>

InitLog ==
    /\ agent = [kind |-> "Agent", session_id |-> 0]
    /\ memory = [self |-> <<SystemMessage(SystemPrompt)>>, research |-> <<>>]
    /\ messages = <<>>
    /\ submitted = <<>>
    /\ pc = "writers"
    /\ frame = <<>>
    /\ rounds = 0
    /\ exc = ""
    /\ run_log = [user_message |-> None]
    /\ stores = [f \in LogFiles |-> <<>>]
    /\ ret = NoOutcome
    /\ nextId = 1
    /\ nextSid = 1
    /\ clock = 1
    /\ calls = 0
    /\ invokes = 0
    /\ ioFault = FALSE
    /\ pre = [memory |-> memory.self, stores |-> stores]
    /\ cc = NoContentCall
    /\ call = NoCall
    /\ config = DefaultConfig
    /\ env = RequiredEnvVars
    /\ w_pc = [w \in Writers |-> "start"]
    /\ \E targets \in [Writers -> WriterTargets] :
            w_local = [w \in Writers |-> [NoLocal EXCEPT !.target = targets[w]]]
    /\ lock = 0
    /\ truncated = {}

NextLog ==
    \E w \in Writers :
        \/ W_Stamp(w) \/ W_Acquire(w) \/ W_Append(w)
        \/ W_Construct(w) \/ W_Load(w) \/ W_Open(w) \/ W_Dump(w)

SpecLog == InitLog /\ [][NextLog]_vars

\* C10: when N concurrent log writes to one store have all finished, the store
\* parses as a record sequence and holds all N records.
C10_NoLostUpdate ==
    (\A w \in Writers : w_pc[w] = "done") =>
        \A f \in WriterTargets :
            /\ f \notin truncated
            /\ Len(stores[f]) = Cardinality({w \in Writers : w_local[w].target = f})

----------------------------------------------------------------------------
(* Properties of the turn loop, checked under SpecLoop. *)

ToolTurnsFor(conversation, from, id) ==
    {j \in from..Len(conversation) :
        conversation[j].role = "tool" /\ conversation[j].tool_call_id = id}

\* C3: in every conversation submitted to the backend, each tool call requested
\* by an assistant turn of that conversation has exactly one tool-result turn
\* with its call-id, placed after the requesting turn.
C3_OneResultPerCall ==
    \A i \in 1..Len(submitted) :
        \A k \in 1..Len(submitted[i].tool_calls) :
            Cardinality(ToolTurnsFor(submitted, i + 1, submitted[i].tool_calls[k].id)) = 1

C3_Witness ==
    /\ rounds = 2
    /\ \E i \in 1..Len(submitted) : Len(submitted[i].tool_calls) = 2

\* C4: the tool-result turns of one assistant turn follow it directly, in the
\* order in which that turn listed its requests.
C4_ResultsInRequestOrder ==
    \A i \in 1..Len(messages) :
        (messages[i].tool_calls # <<>> /\ (i < Len(messages) \/ pc = "assistant")) =>
            /\ Len(messages) >= i + Len(messages[i].tool_calls)
            /\ \A k \in 1..Len(messages[i].tool_calls) :
                /\ messages[i + k].role = "tool"
                /\ messages[i + k].tool_call_id = messages[i].tool_calls[k].id
                /\ messages[i + k].name = messages[i].tool_calls[k].name

C4_Witness ==
    /\ pc = "assistant"
    /\ Len(messages) >= 3
    /\ Len(messages[Len(messages) - 2].tool_calls) = 2
    /\ messages[Len(messages) - 2].tool_calls[1].name # messages[Len(messages) - 2].tool_calls[2].name

\* C5: every submitted turn sequence starts with a system turn; it is the
\* graph state itself when that starts with a system turn, and the configured
\* system prompt followed by the graph state when it is empty or starts otherwise.
C5_SystemTurnFirst ==
    submitted # <<>> =>
        /\ submitted[1].role = "system"
        /\ IF messages # <<>> /\ messages[1].role = "system"
           THEN IsPrefix(submitted, messages)
           ELSE /\ submitted[1] = SystemMessage(SystemPrompt)
                /\ IsPrefix(Tail(submitted), messages)

C5_Witness ==
    /\ rounds >= 1
    /\ submitted # <<>>
    /\ messages[1].role = "user"
    /\ Len(submitted) > 3
    /\ submitted[1] = SystemMessage(SystemPrompt)

LastTurn(conversation) == conversation[Len(conversation)]

----------------------------------------------------------------------------
(* Properties of the top-level calls. A call has returned or raised when
   pc = "idle" and calls > 0; pre holds the memory and the stores it started from. *)

RunStoreOf(kind) ==
    IF kind = "Agent" THEN AgentLogFile
    ELSE IF kind = "Reddit" THEN RedditLogFile
    ELSE ContentLogFile

EntriesOfType(st, file, log_type) ==
    SelectSeq(st[file], LAMBDA entry : entry.log_type = log_type)

\* the run records of the store an agent of this kind logs its runs to
RunRecords(kind, st) ==
    IF kind = "Agent" THEN st[AgentLogFile]
    ELSE EntriesOfType(st, RunStoreOf(kind), LogTypeOf(RunStoreOf(kind)))

CallFinished == pc = "idle" /\ calls > 0

\* create_content went through its except block and returned
ContentFailed ==
    /\ agent.kind = "Content"
    /\ ret.status = "returned"
    /\ "error" \in DOMAIN ret.value

C2_ChatNeverRaises ==
    CallFinished =>
        /\ ret.status = "returned"
        /\ exc # "" => ret.value = <<"[ERROR]", exc>>

\* C7: no step shortens or rewrites the memory of the agent: the memory after a
\* step has the memory before it as a prefix, over chat and create_content calls,
\* failed or not; the same holds for the research agent while its chat runs.
C7_MemoryAppendOnly ==
    [][ /\ IsPrefix(memory.self, memory'.self)
        /\ pc # "idle" => IsPrefix(memory.research, memory'.research)
      ]_vars

C7_Witness ==
    /\ CallFinished
    /\ calls = 2
    /\ Len(memory.self) = 6
    /\ IsPrefix(pre.memory, memory.self)
    /\ Len(pre.memory) < Len(memory.self)

HasToolTurn(conversation) ==
    \E i \in 1..Len(conversation) : conversation[i].role = "tool"

LastEntry(st, file) == st[file][Len(st[file])]

----------------------------------------------------------------------------
(* The log store used on its own: sequential logging calls, clear_logs, get_logs. *)

\* the static logging methods: each writes entries of one type to one file
LogMethods ==
    {[name |-> "log_content_creation", file |-> ContentLogFile, log_type |-> "content_creation"],
     [name |-> "log_error", file |-> ContentLogFile, log_type |-> "error"],
     [name |-> "log_reddit_run", file |-> RedditLogFile, log_type |-> "reddit_agent_run"]}

\* uuid4 prefixes the loggers of the modelled calls can draw
SessionIds == 1..MaxSessions

\* as IOOutcomes, with the case that open(path, 'w') works and json.dump then fails
StoreIOOutcomes == IOOutcomes \cup {"write_error"}

\* Python truthiness of an optional argument
TruthyText(opt) == opt # None /\ opt # <<"">>
TruthyNumber(opt) == opt # None /\ opt # <<0>>

\* list.sort(key=timestamp, reverse=True): newest first, equal timestamps keep their order
InsertNewestFirst(sorted, entry) ==
    LET k == Cardinality({i \in 1..Len(sorted) : sorted[i].timestamp >= entry.timestamp})
    IN  SubSeq(sorted, 1, k) \o <<entry>> \o SubSeq(sorted, k + 1, Len(sorted))

RECURSIVE SortNewestFirst(_)
SortNewestFirst(logs) ==
    IF logs = <<>> THEN <<>>
    ELSE InsertNewestFirst(SortNewestFirst(SubSeq(logs, 1, Len(logs) - 1)), logs[Len(logs)])

\* filtered_logs[:limit] for limit >= 0
SliceTo(list, limit) == SubSeq(list, 1, IF limit < Len(list) THEN limit ELSE Len(list))

\* a get_logs without the session filter
get_logs_unfiltered_session(logs, log_type, session_id, limit, start_date, end_date) ==
    LET f1 == IF TruthyText(log_type)
              THEN SelectSeq(logs, LAMBDA log : log.log_type = log_type[1]) ELSE logs
        sorted == SortNewestFirst(f1)
    IN  IF TruthyNumber(limit) THEN SliceTo(sorted, limit[1]) ELSE sorted

\* ContentCreatorLogger.get_logs after the file was read: filters, sort, limit
get_logs(logs, log_type, session_id, limit, start_date, end_date) ==
    LET f1 == IF TruthyText(log_type)
              THEN SelectSeq(logs, LAMBDA log : log.log_type = log_type[1]) ELSE logs
        f2 == IF session_id # None
              THEN SelectSeq(f1, LAMBDA log : log.session_id = session_id[1]) ELSE f1
        f3 == IF start_date # None
              THEN SelectSeq(f2, LAMBDA log : log.timestamp >= start_date[1]) ELSE f2
        f4 == IF end_date # None
              THEN SelectSeq(f3, LAMBDA log : log.timestamp <= end_date[1]) ELSE f3
        sorted == SortNewestFirst(f4)
    IN  IF TruthyNumber(limit) THEN SliceTo(sorted, limit[1]) ELSE sorted

\* one static logging call, by a fresh logger that drew session id s
StoreWrite ==
    /\ pc = "store"
    /\ calls < MaxWrites
    /\ \E method \in LogMethods, s \in SessionIds, io \in StoreIOOutcomes, tick \in {0, 1} :
        LET f == method.file
            data == [user_message |-> <<method.name>>]
        IN  /\ call' = [op |-> "write", file |-> f, io |-> io]
            /\ IF io = "ok" /\ f \notin truncated
               THEN /\ stores' = [stores EXCEPT ![f] =
                                    _write_log(@, s, data, method.log_type, clock)]
                    /\ truncated' = truncated
               ELSE IF io = "write_error" /\ f \notin truncated
               THEN /\ stores' = [stores EXCEPT ![f] = <<>>]
                    /\ truncated' = truncated \cup {f}
               ELSE UNCHANGED <<stores, truncated>>
            /\ ret' = IF io = "dir_error" THEN Raised(OSErrorText) ELSE Returned(None)
            /\ clock' = clock + tick
    /\ calls' = calls + 1
    /\ UNCHANGED <<agent, memory, loopVars, pc, frame, run_log, nextSid, invokes,
                   ioFault, pre, cc, w_pc, w_local, lock, processVars>>

\* ContentCreatorLogger.clear_logs(confirm)
ClearLogs ==
    /\ pc = "store"
    /\ \E confirm \in BOOLEAN, io \in StoreIOOutcomes :
        /\ ~confirm => io = "ok"
        /\ call' = [op |-> "clear_logs", confirm |-> confirm, io |-> io]
        /\ IF ~confirm
           THEN /\ ret' = Returned(FALSE)
                /\ UNCHANGED <<stores, truncated>>
           ELSE IF io = "ok"
           THEN /\ ret' = Returned(TRUE)
                /\ stores' = [stores EXCEPT ![ContentLogFile] = <<>>]
                /\ truncated' = truncated \ {ContentLogFile}
           ELSE IF io = "write_error"
           THEN /\ ret' = Returned(FALSE)
                /\ stores' = [stores EXCEPT ![ContentLogFile] = <<>>]
                /\ truncated' = truncated \cup {ContentLogFile}
           ELSE /\ ret' = IF io = "dir_error" THEN Raised(OSErrorText) ELSE Returned(FALSE)
                /\ UNCHANGED <<stores, truncated>>
    /\ UNCHANGED <<agent, memory, loopVars, pc, frame, run_log, nextSid, clock, calls,
                   invokes, ioFault, pre, cc, w_pc, w_local, lock, processVars>>

LogTypeArgs == {None, <<"content_creation">>, <<"error">>}
SessionArgs == {None} \cup {<<s>> : s \in SessionIds}
LimitArgs == {None} \cup {<<n>> : n \in 0..MaxLimit}
DateArgs == {None, <<2>>}

\* ContentCreatorLogger.get_logs(log_type, session_id, limit, start_date, end_date),
\* as the last call of a sequence of logging calls
GetLogs ==
    /\ pc = "store"
    /\ \E log_type \in LogTypeArgs, session_id \in SessionArgs, limit \in LimitArgs,
          start_date \in DateArgs, end_date \in DateArgs, io \in IOOutcomes :
        LET readable == io = "ok" /\ ContentLogFile \notin truncated
        IN  /\ io # "ok" => /\ log_type = None /\ session_id = None /\ limit = None
                            /\ start_date = None /\ end_date = None
            /\ call' = [op |-> "get_logs", log_type |-> log_type, session_id |-> session_id,
                        limit |-> limit, start_date |-> start_date, end_date |-> end_date,
                        readable |-> readable]
            /\ ret' = IF io = "dir_error" THEN Raised(OSErrorText)
                      ELSE IF readable
                      THEN Returned(get_logs(stores[ContentLogFile], log_type, session_id,
                                             limit, start_date, end_date))
                      ELSE Returned(<<>>)
    /\ pc' = "read"
    /\ UNCHANGED <<agent, memory, loopVars, frame, run_log, stores, nextSid, clock,
                   calls, invokes, ioFault, pre, cc, writerVars, processVars>>

InitStore ==
    /\ agent = [kind |-> "Content", session_id |-> 1]
    /\ memory = [self |-> <<SystemMessage(SystemPrompt)>>, research |-> <<>>]
    /\ messages = <<>>
    /\ submitted = <<>>
    /\ pc = "store"
    /\ frame = <<>>
    /\ rounds = 0
    /\ exc = ""
    /\ run_log = [user_message |-> None]
    /\ stores = [f \in LogFiles |-> <<>>]
    /\ ret = NoOutcome
    /\ nextId = 1
    /\ nextSid = 1
    /\ clock = 1
    /\ calls = 0
    /\ invokes = 0
    /\ ioFault = FALSE
    /\ pre = [memory |-> memory.self, stores |-> stores]
    /\ cc = NoContentCall
    /\ call = NoCall
    /\ config = DefaultConfig
    /\ env = RequiredEnvVars
    /\ NoWriters

NextStore == StoreWrite \/ ClearLogs \/ GetLogs

SpecStore == InitStore /\ [][NextStore]_vars

----------------------------------------------------------------------------
(* Properties of the log store, checked under SpecStore. *)

\* C11: in a sequence of logging calls, a call in which no write fails half-way
\* leaves every record of every store in place and unchanged and adds at most
\* one record, at the end; a call that reads and writes its file adds exactly
\* one. Records leave a store only through clear_logs(True); clear_logs(False)
\* returns False and changes nothing.
C11_AppendOnly ==
    [][ /\ \A f \in LogFiles :
            \/ IsPrefix(stores[f], stores'[f]) /\ Len(stores'[f]) <= Len(stores[f]) + 1
            \/ call'.op = "clear_logs" /\ call'.confirm /\ f = ContentLogFile
            \/ call'.op = "write" /\ call'.io = "write_error" /\ f = call'.file
        /\ (call'.op = "write" /\ call'.io = "ok" /\ call'.file \notin truncated) =>
                /\ Len(stores'[call'.file]) = Len(stores[call'.file]) + 1
                /\ \A f \in LogFiles \ {call'.file} : stores'[f] = stores[f]
        /\ (call'.op = "clear_logs" /\ ~call'.confirm) =>
                /\ ret' = Returned(FALSE)
                /\ stores' = stores
                /\ truncated' = truncated
        /\ (call'.op = "clear_logs" /\ call'.confirm /\ call'.io = "ok") =>
                /\ ret' = Returned(TRUE)
                /\ stores'[ContentLogFile] = <<>>
      ]_vars

C11_Witness ==
    /\ call.op = "write"
    /\ call.io = "ok"
    /\ call.file = ContentLogFile
    /\ Len(stores[ContentLogFile]) = 2
    /\ stores[ContentLogFile][1].timestamp <= stores[ContentLogFile][2].timestamp

----------------------------------------------------------------------------
(* Properties of the top-level calls under failures, checked under Spec. *)

\* C12 as stated: when a log file operation failed during a top-level call, the
\* call still returns: chat the answer text it computed, create_content its
\* ContentResult; no exception from logging reaches the caller.
C12_LoggingFailureContained ==
    (CallFinished /\ ioFault) =>
        /\ ret.status = "returned"
        /\ agent.kind \in {"Agent", "Reddit"} => ret.value = run_log.agent_response
        /\ agent.kind = "Content" => ret.value = cc.final_result

\* the research step raised: the tool or research_topic turned an exception into text
ResearchRaised ==
    /\ cc.research_results # None
    /\ cc.research_results[1] \in {"Error during research:", "Research error:"}

\* C13 as stated: when the research step raised, create_content returns a
\* ContentResult with the error field set and with empty content and files.
C13_FailedResearchGivesEmptyResult ==
    (CallFinished /\ agent.kind = "Content" /\ ret.status = "returned" /\ ResearchRaised) =>
        /\ "error" \in DOMAIN ret.value
        /\ ret.value.content = EmptyMap
        /\ ret.value.files = EmptyMap

\* the entries of dict m other than the one for key k are the same in dict n
KeepsOtherEntries(m, n, k) ==
    \A p \in DOMAIN m \ {k} : p \in DOMAIN n /\ n[p] = m[p]

\* C14: no iteration of the platform loop, finished or interrupted by an
\* exception, changes the content and file entries of the platforms handled
\* before it, and the ContentResult returned after an exception has exactly the
\* entries made so far, together with the error field.
C14_PartialResultsKept ==
    [][ /\ pc = "platforms" /\ pc' \in {"platforms", "cc_except"} =>
            /\ KeepsOtherEntries(cc.final_result.content, cc'.final_result.content,
                                 cc.platforms[cc.idx])
            /\ KeepsOtherEntries(cc.final_result.files, cc'.final_result.files,
                                 cc.platforms[cc.idx])
            /\ pc' = "cc_except" => cc'.final_result.files = cc.final_result.files
        /\ pc = "cc_except" /\ pc' = "idle" /\ ret'.status = "returned" =>
            /\ "error" \in DOMAIN ret'.value
            /\ ret'.value.content = cc.final_result.content
            /\ ret'.value.files = cc.final_result.files
      ]_vars

C14_Witness ==
    /\ CallFinished
    /\ ContentFailed
    /\ Len(cc.platforms) = 2
    /\ cc.idx = 2
    /\ cc.platforms[1] # cc.platforms[2]
    /\ DOMAIN ret.value.content = {cc.platforms[1]}
    /\ DOMAIN ret.value.files = {cc.platforms[1]}

\* C15 as stated: after a create_content call that failed, with no log file
\* operation failing, the error record is in the error store and the run store
\* has no new record of type "error".
C15_ErrorGoesToErrorStore ==
    (CallFinished /\ ContentFailed /\ ~ioFault) =>
        /\ Len(EntriesOfType(stores, ErrorLogFile, "error")) =
                Len(EntriesOfType(pre.stores, ErrorLogFile, "error")) + 1
        /\ EntriesOfType(stores, ContentLogFile, "error") =
                EntriesOfType(pre.stores, ContentLogFile, "error")

----------------------------------------------------------------------------
(* Properties of log retrieval, checked under SpecStore. *)

\* the number of positions of seq that hold record r
CountIn(seq, r) == Cardinality({i \in 1..Len(seq) : seq[i] = r})

\* the last call was a get_logs that could read the store and returned
GetLogsReturned ==
    /\ call.op = "get_logs"
    /\ call.readable
    /\ ret.status = "returned"

\* C18: get_logs filtered by a session id s returns only records whose session
\* id is s; with no other filter and no limit it returns every such record of
\* the store, as often as the store holds it; the records come newest first.
C18_SessionFilter ==
    (GetLogsReturned /\ call.session_id # None) =>
        LET s == call.session_id[1]
            logs == stores[ContentLogFile]
            out == ret.value
        IN  /\ \A i \in 1..Len(out) : out[i].session_id = s
            /\ \A i, j \in 1..Len(out) : i < j => out[i].timestamp >= out[j].timestamp
            /\ (/\ call.log_type = None /\ call.limit = None
                /\ call.start_date = None /\ call.end_date = None) =>
                   /\ Len(out) = Cardinality({i \in 1..Len(logs) : logs[i].session_id = s})
                   /\ \A i \in 1..Len(logs) :
                        logs[i].session_id = s => CountIn(out, logs[i]) = CountIn(logs, logs[i])

\* a store with records of two sessions is read by session id alone and one
\* record comes back
C18_Witness ==
    /\ GetLogsReturned
    /\ call.session_id # None
    /\ call.log_type = None /\ call.limit = None
    /\ call.start_date = None /\ call.end_date = None
    /\ Len(stores[ContentLogFile]) = 2
    /\ stores[ContentLogFile][1].session_id # stores[ContentLogFile][2].session_id
    /\ Len(ret.value) = 1

\* C19 as stated: get_logs with a limit n, for any n >= 0, returns at most n
\* records, and they are the n newest records that pass the other filters.
C19_LimitBoundsResult ==
    (GetLogsReturned /\ call.limit # None) =>
        LET n == call.limit[1]
            passing == get_logs(stores[ContentLogFile], call.log_type, call.session_id,
                                None, call.start_date, call.end_date)
        IN  /\ Len(ret.value) <= n
            /\ ret.value = SliceTo(passing, n)

----------------------------------------------------------------------------
(* The tools of tools.py called on their own, each with a client that works or fails. *)

GuardedTools ==
    {"google_grounding_search", "research_topic_for_content", "research_trending_topics",
     "generate_platform_content", "analyze_content_performance", "generate_article",
     "generate_x_thread", "save_content_to_file"}

OtherTools == GuardedTools \cup {"search_subreddits", "get_current_date"}

\* the text each except block puts before str(e)
ErrorPrefix(name) ==
    CASE name = "google_grounding_search" -> "Error performing grounded search:"
      [] name = "research_topic_for_content" -> "Error during research:"
      [] name = "research_trending_topics" -> "Error during trending research:"
      [] name = "generate_platform_content" -> "Error generating content:"
      [] name = "analyze_content_performance" -> "Error during content analysis:"
      [] name = "generate_article" -> "Error generating article:"
      [] name = "generate_x_thread" -> "Error generating X thread:"
      [] name = "save_content_to_file" -> "Error saving file:"

\* what a tool other than search_subreddit_content does when called: get_current_date
\* has no client; the tools with a try block turn the client's exception into text;
\* search_subreddits has no handler
tool_invoke(name, client) ==
    IF name = "get_current_date" THEN Returned(DateText)
    ELSE IF client = "ok" THEN Returned(ToolOutput)
    ELSE IF name \in GuardedTools THEN Returned(<<ErrorPrefix(name), ToolError>>)
    ELSE Raised(ToolError)

\* what the forum client returns: submissions and the newest comments
PostInputs == {[title |-> "p1", score |-> 1], [title |-> "p2", score |-> 2]}
CommentInputs == {[body |-> b, score |-> n] : b \in {<<"AI", "news">>, <<"cats">>}, n \in {1, 2}}
Query == "ai"

\* str.lower on the words of the model
Lower(word) == IF word = "AI" THEN "ai" ELSE word

\* query.lower() in comment.body.lower()
Matches(query, body) == \E i \in 1..Len(body) : Lower(body[i]) = Lower(query)

PostResult(submission) ==
    [type |-> "post", title |-> submission.title, score |-> submission.score]

CommentResult(comment) ==
    [type |-> "comment", snippet |-> comment.body, score |-> comment.score]

\* list.sort(key=score, reverse=True): top first, equal scores keep their order
InsertTopFirst(sorted, result) ==
    LET k == Cardinality({i \in 1..Len(sorted) : sorted[i].score >= result.score})
    IN  SubSeq(sorted, 1, k) \o <<result>> \o SubSeq(sorted, k + 1, Len(sorted))

RECURSIVE SortTopFirst(_)
SortTopFirst(results) ==
    IF results = <<>> THEN <<>>
    ELSE InsertTopFirst(SortTopFirst(SubSeq(results, 1, Len(results) - 1)),
                        results[Len(results)])

\* a search_subreddit_content that sorts the whole result list by score
search_subreddit_content_sort_all(posts, comments, query) ==
    LET matching == SelectSeq(comments, LAMBDA c : Matches(query, c.body))
    IN  SortTopFirst([i \in 1..Len(posts) |-> PostResult(posts[i])]
                     \o [i \in 1..Len(matching) |-> CommentResult(matching[i])])

\* search_subreddit_content once the client has returned posts and comments
search_subreddit_content(posts, comments, query) ==
    LET matching == SelectSeq(comments, LAMBDA c : Matches(query, c.body))
        results == [i \in 1..Len(posts) |-> PostResult(posts[i])]
                   \o [i \in 1..Len(matching) |-> CommentResult(matching[i])]
        comment_results == SelectSeq(results, LAMBDA r : r.type = "comment")
        post_results == SelectSeq(results, LAMBDA r : r.type = "post")
    IN  post_results \o SortTopFirst(comment_results)

\* search_subreddit_content.invoke(...), one call per run of the harness
SearchContentCall ==
    /\ pc = "tool"
    /\ \E posts \in SeqsUpTo(PostInputs, MaxPosts),
          comments \in SeqsUpTo(CommentInputs, MaxComments),
          client \in {"ok", "fail"} :
        /\ client = "fail" => (posts = <<>> /\ comments = <<>>)
        /\ call' = [op |-> "search_subreddit_content", client |-> client,
                    posts |-> posts, comments |-> comments]
        /\ ret' = IF client = "ok"
                  THEN Returned(search_subreddit_content(posts, comments, Query))
                  ELSE Raised(ToolError)
    /\ pc' = "called"
    /\ UNCHANGED <<agent, memory, loopVars, frame, run_log, stores, nextSid, clock,
                   calls, invokes, ioFault, pre, cc, writerVars, processVars>>

\* the .invoke of any other tool
ToolCall ==
    /\ pc = "tool"
    /\ \E name \in OtherTools, client \in {"ok", "fail"} :
        /\ call' = [op |-> name, client |-> client]
        /\ ret' = tool_invoke(name, client)
    /\ pc' = "called"
    /\ UNCHANGED <<agent, memory, loopVars, frame, run_log, stores, nextSid, clock,
                   calls, invokes, ioFault, pre, cc, writerVars, processVars>>

InitTools ==
    /\ agent = [kind |-> "Agent", session_id |-> 0]
    /\ memory = [self |-> <<SystemMessage(SystemPrompt)>>, research |-> <<>>]
    /\ messages = <<>>
    /\ submitted = <<>>
    /\ pc = "tool"
    /\ frame = <<>>
    /\ rounds = 0
    /\ exc = ""
    /\ run_log = [user_message |-> None]
    /\ stores = [f \in LogFiles |-> <<>>]
    /\ ret = NoOutcome
    /\ nextId = 1
    /\ nextSid = 1
    /\ clock = 1
    /\ calls = 0
    /\ invokes = 0
    /\ ioFault = FALSE
    /\ pre = [memory |-> memory.self, stores |-> stores]
    /\ cc = NoContentCall
    /\ call = NoCall
    /\ config = DefaultConfig
    /\ env = RequiredEnvVars
    /\ NoWriters

NextTools == SearchContentCall \/ ToolCall

SpecTools == InitTools /\ [][NextTools]_vars

----------------------------------------------------------------------------
(* Properties of the tools, checked under SpecTools. *)

\* C17 as stated: whatever tool is called and whether its client works or
\* fails, the call returns a value and does not raise.
C17_ToolsFailureClosed ==
    call.op # "none" => ret.status = "returned"

\* C20: in the list search_subreddit_content returns, every post record comes
\* before every comment record, the comment records are in descending order of
\* score, and the post records are in the order the client returned the posts.
C20_PostsThenCommentsByScore ==
    (call.op = "search_subreddit_content" /\ ret.status = "returned") =>
        LET out == ret.value
        IN  /\ \A i, j \in 1..Len(out) :
                 i < j => ~(out[i].type = "comment" /\ out[j].type = "post")
            /\ \A i, j \in 1..Len(out) :
                 (i < j /\ out[i].type = "comment" /\ out[j].type = "comment")
                    => out[i].score >= out[j].score
            /\ SelectSeq(out, LAMBDA r : r.type = "post")
                 = [i \in 1..Len(call.posts) |-> PostResult(call.posts[i])]

\* the client returned two posts, the lower-scored first, and two matching
\* comments, the lower-scored first, so that the sort had to reorder them
C20_Witness ==
    /\ call.op = "search_subreddit_content"
    /\ ret.status = "returned"
    /\ Len(call.posts) = 2
    /\ call.posts[1].score < call.posts[2].score
    /\ Len(call.comments) = 2
    /\ call.comments[1].score < call.comments[2].score
    /\ Len(ret.value) = 4
    /\ ret.value[3].score > ret.value[4].score

----------------------------------------------------------------------------
(* The filename sanitization of save_content_to_file. A topic is a sequence of
   characters; each character of the model stands for its class in the two
   regular expressions and for its lower-case form; "TAB" is the tab character. *)

\* LATIN CAPITAL LETTER I WITH DOT ABOVE, whose lower-case form is two characters
CapitalIDot == "U+0130"
\* COMBINING DOT ABOVE, a nonspacing mark
CombiningDot == "U+0307"

TopicChars == {"a", "A", " ", "TAB", "-", "_", "!", CapitalIDot}
Topics == SeqsUpTo(TopicChars, MaxTopicLen)

\* \w of a str pattern: alphanumerics of any script and the underscore
IsWordChar(c) == c \in {"a", "A", "i", "_", CapitalIDot}
\* \s
IsSpaceChar(c) == c \in {" ", "TAB"}
\* [-\s]
IsSeparator(c) == c = "-" \/ IsSpaceChar(c)

\* re.sub(r'[^\w\s-]', '', topic)
RemoveSpecial(t) == SelectSeq(t, LAMBDA c : IsWordChar(c) \/ IsSpaceChar(c) \/ c = "-")

RECURSIVE LStrip(_)
LStrip(t) == IF t # <<>> /\ IsSpaceChar(Head(t)) THEN LStrip(Tail(t)) ELSE t

RECURSIVE RStrip(_)
RStrip(t) ==
    IF t # <<>> /\ IsSpaceChar(t[Len(t)]) THEN RStrip(SubSeq(t, 1, Len(t) - 1)) ELSE t

\* str.strip()
Strip(t) == RStrip(LStrip(t))

\* str.replace(' ', '_')
ReplaceSpaces(t) == [i \in 1..Len(t) |-> IF t[i] = " " THEN "_" ELSE t[i]]

RECURSIVE DropSeparators(_)
DropSeparators(t) ==
    IF t # <<>> /\ IsSeparator(Head(t)) THEN DropSeparators(Tail(t)) ELSE t

\* re.sub(r'[-\s]+', '_', s): every maximal run of hyphens and whitespace
\* becomes one underscore
RECURSIVE CollapseRuns(_)
CollapseRuns(t) ==
    IF t = <<>> THEN <<>>
    ELSE IF IsSeparator(Head(t))
    THEN <<"_">> \o CollapseRuns(DropSeparators(Tail(t)))
    ELSE <<Head(t)>> \o CollapseRuns(Tail(t))

\* the lower-case form of one character
LowerChar(c) ==
    IF c = "A" THEN <<"a">>
    ELSE IF c = CapitalIDot THEN <<"i", CombiningDot>>
    ELSE <<c>>

\* str.lower()
RECURSIVE str_lower(_)
str_lower(t) == IF t = <<>> THEN <<>> ELSE LowerChar(Head(t)) \o str_lower(Tail(t))

\* the two assignments to sanitized_topic
sanitized_topic(topic) ==
    str_lower(CollapseRuns(ReplaceSpaces(Strip(RemoveSpecial(topic)))))

\* the sanitization of one topic
SanitizeTopic ==
    /\ pc = "topic"
    /\ \E topic \in Topics :
        /\ call' = [op |-> "sanitize", topic |-> topic]
        /\ ret' = Returned(sanitized_topic(topic))
    /\ pc' = "sanitized"
    /\ UNCHANGED <<agent, memory, loopVars, frame, run_log, stores, nextSid, clock,
                   calls, invokes, ioFault, pre, cc, writerVars, processVars>>

\* the sanitization of a file name part that was sanitized before
SanitizeAgain ==
    /\ pc = "sanitized"
    /\ call' = [op |-> "sanitize_again", topic |-> ret.value]
    /\ ret' = Returned(sanitized_topic(ret.value))
    /\ pc' = "done"
    /\ UNCHANGED <<agent, memory, loopVars, frame, run_log, stores, nextSid, clock,
                   calls, invokes, ioFault, pre, cc, writerVars, processVars>>

InitSanitize ==
    /\ agent = [kind |-> "Content", session_id |-> 0]
    /\ memory = [self |-> <<SystemMessage(SystemPrompt)>>, research |-> <<>>]
    /\ messages = <<>>
    /\ submitted = <<>>
    /\ pc = "topic"
    /\ frame = <<>>
    /\ rounds = 0
    /\ exc = ""
    /\ run_log = [user_message |-> None]
    /\ stores = [f \in LogFiles |-> <<>>]
    /\ ret = NoOutcome
    /\ nextId = 1
    /\ nextSid = 1
    /\ clock = 1
    /\ calls = 0
    /\ invokes = 0
    /\ ioFault = FALSE
    /\ pre = [memory |-> memory.self, stores |-> stores]
    /\ cc = NoContentCall
    /\ call = NoCall
    /\ config = DefaultConfig
    /\ env = RequiredEnvVars
    /\ NoWriters

NextSanitize == SanitizeTopic \/ SanitizeAgain

SpecSanitize == InitSanitize /\ [][NextSanitize]_vars

----------------------------------------------------------------------------
(* Properties of the sanitization, checked under SpecSanitize. *)

\* C21 as stated: sanitizing a sanitized topic gives the same text, for every
\* topic.
C21_SanitizeIdempotent ==
    call.op = "sanitize_again" => ret.value = call.topic

\* C22 as stated: the sanitized topic is the topic in lower case, without the
\* characters that are neither word characters nor whitespace nor hyphens, and
\* with one underscore for every maximal run of whitespace and hyphens. Stated
\* for topics that begin and end with a word character, where stripping the
\* ends changes nothing.
C22_RunsBecomeOneUnderscore ==
    (/\ call.op = "sanitize"
     /\ call.topic # <<>>
     /\ IsWordChar(call.topic[1])
     /\ IsWordChar(call.topic[Len(call.topic)])) =>
        ret.value = str_lower(CollapseRuns(RemoveSpecial(call.topic)))

----------------------------------------------------------------------------
(* Further properties of create_content, checked under Spec. *)

\* C23 as stated: every value of the files mapping of a returned ContentResult
\* is the path of the file written for that platform.
C23_FilesHoldPaths ==
    (CallFinished /\ agent.kind = "Content" /\ ret.status = "returned") =>
        \A platform \in DOMAIN ret.value.files :
            \E now \in 1..clock :
                ret.value.files[platform] = file_path(OutputFolder(platform), platform, now)

----------------------------------------------------------------------------
(* The three constructors, called in one process with a given environment. *)

EnvErrorText(var) ==
    CASE var = "GEMINI_API_KEY" -> "GEMINI_API_KEY environment variable not set"
      [] var = "REDDIT_CLIENT_ID" -> "REDDIT_CLIENT_ID environment variable not set"
      [] var = "REDDIT_CLIENT_SECRET" -> "REDDIT_CLIENT_SECRET environment variable not set"

PresetNotFoundText == "Preset not found"

\* the loop over required_env_vars: the first variable that os.getenv finds
\* unset or empty, 0 when there is none
FirstMissing(e) ==
    LET missing == {i \in 1..Len(required_env_vars) : required_env_vars[i] \notin e}
    IN  IF missing = {} THEN 0 ELSE CHOOSE i \in missing : \A j \in missing : i <= j

\* the model settings and the system prompt an Agent is built with
AgentSettings ==
    [kind |-> "Agent", temperature |-> 4, system_prompt |-> "agent system message"]

RedditSettings(cfg) ==
    [kind |-> "Reddit", temperature |-> cfg.reddit_agent.temperature,
     system_prompt |-> "reddit agent prompt"]

ContentSettings(cfg) ==
    [kind |-> "Content", temperature |-> cfg.content_creator.temperature,
     system_prompt |-> cfg.content_creator.system_prompt]

\* the validation both configured agents make, then the rest of the
\* constructor, which ends with the construction of the logger
ValidateAndBuild(settings, e, io) ==
    IF "GEMINI_API_KEY" \notin e THEN Raised(EnvErrorText("GEMINI_API_KEY"))
    ELSE IF FirstMissing(e) # 0 THEN Raised(EnvErrorText(required_env_vars[FirstMissing(e)]))
    ELSE IF io = "dir_error" THEN Raised(OSErrorText)
    ELSE Returned(settings)

PresetArgs == {None, <<"">>, <<"unknown">>} \cup {<<name>> : name \in PresetNames}

\* Agent()
AgentInit ==
    /\ pc = "construct"
    /\ calls < MaxConstructions
    /\ call' = [op |-> "construct", kind |-> "Agent", preset |-> None]
    /\ ret' = IF "GEMINI_API_KEY" \notin env
              THEN Raised(EnvErrorText("GEMINI_API_KEY"))
              ELSE Returned(AgentSettings)
    /\ calls' = calls + 1
    /\ UNCHANGED <<agent, memory, loopVars, pc, frame, run_log, stores, nextSid, clock,
                   invokes, ioFault, pre, cc, writerVars, processVars>>

\* RedditAgent()
RedditAgentInit ==
    /\ pc = "construct"
    /\ calls < MaxConstructions
    /\ \E io \in {"ok", "dir_error"} :
        /\ call' = [op |-> "construct", kind |-> "Reddit", preset |-> None]
        /\ ret' = ValidateAndBuild(RedditSettings(config), env, io)
    /\ calls' = calls + 1
    /\ UNCHANGED <<agent, memory, loopVars, pc, frame, run_log, stores, nextSid, clock,
                   invokes, ioFault, pre, cc, writerVars, processVars>>

\* ContentCreatorAgent(config_preset)
ContentCreatorAgentInit ==
    /\ pc = "construct"
    /\ calls < MaxConstructions
    /\ \E config_preset \in PresetArgs, io \in {"ok", "dir_error"} :
        /\ call' = [op |-> "construct", kind |-> "Content", preset |-> config_preset]
        /\ IF ~TruthyText(config_preset)
           THEN /\ config' = config
                /\ ret' = ValidateAndBuild(ContentSettings(config), env, io)
           ELSE IF config_preset[1] \notin PresetNames
           THEN /\ config' = config
                /\ ret' = Raised(PresetNotFoundText)
           ELSE /\ config' = apply_preset(config, config_preset[1])
                /\ ret' = ValidateAndBuild(ContentSettings(config'), env, io)
    /\ calls' = calls + 1
    /\ UNCHANGED <<agent, memory, loopVars, pc, frame, run_log, stores, nextSid, clock,
                   invokes, ioFault, pre, cc, writerVars, env>>

InitConstruct ==
    /\ agent = [kind |-> "Agent", session_id |-> 0]
    /\ memory = [self |-> <<SystemMessage(SystemPrompt)>>, research |-> <<>>]
    /\ messages = <<>>
    /\ submitted = <<>>
    /\ pc = "construct"
    /\ frame = <<>>
    /\ rounds = 0
    /\ exc = ""
    /\ run_log = [user_message |-> None]
    /\ stores = [f \in LogFiles |-> <<>>]
    /\ ret = NoOutcome
    /\ nextId = 1
    /\ nextSid = 1
    /\ clock = 1
    /\ calls = 0
    /\ invokes = 0
    /\ ioFault = FALSE
    /\ pre = [memory |-> memory.self, stores |-> stores]
    /\ cc = NoContentCall
    /\ call = NoCall
    /\ config = DefaultConfig
    /\ env \in SUBSET RequiredEnvVars
    /\ NoWriters

NextConstruct == AgentInit \/ RedditAgentInit \/ ContentCreatorAgentInit

SpecConstruct == InitConstruct /\ [][NextConstruct]_vars

----------------------------------------------------------------------------
(* Properties of construction, checked under SpecConstruct. *)

\* C24 as stated: when a required environment value is absent, the
\* construction of an agent of any of the three classes raises.
C24_ConstructionNeedsAllValues ==
    (call.op = "construct" /\ env # RequiredEnvVars) => ret.status = "raised"

\* the shared configuration has every value that preset p sets
HoldsPatch(cfg, p) ==
    \A section \in DOMAIN PRESETS[p] :
        \A key \in DOMAIN PRESETS[p][section] :
            cfg[section][key] = PRESETS[p][section][key]

\* C27: ContentCreatorAgent(config_preset=p), for a preset p of PRESETS, leaves
\* the shared configuration holding p's values whether the constructor returns
\* or raises; no other construction changes the shared configuration; and an
\* agent of a configured class constructed with no preset is built from the
\* values the shared configuration held before its construction. (Agent reads
\* no configuration.)
C27_PresetPersists ==
    [][ call'.op = "construct" /\ calls' = calls + 1 =>
            LET p == call'.preset
                given == TruthyText(p) /\ p[1] \in PresetNames
            IN  /\ given => HoldsPatch(config', p[1])
                /\ ~given => config' = config
                /\ (~TruthyText(p) /\ ret'.status = "returned") =>
                      /\ call'.kind = "Content" => ret'.value = ContentSettings(config)
                      /\ call'.kind = "Reddit" => ret'.value = RedditSettings(config)
      ]_vars

\* a ContentCreatorAgent constructed with no preset is built with the
\* temperature of the viral_focused preset, which an earlier constructor wrote
C27_Witness ==
    /\ call.op = "construct"
    /\ call.kind = "Content"
    /\ call.preset = None
    /\ ret.status = "returned"
    /\ ret.value.temperature = PRESETS["viral_focused"].content_creator.temperature
    /\ ret.value.temperature # DefaultConfig.content_creator.temperature
    /\ ret.value.system_prompt = PRESETS["viral_focused"].content_creator.system_prompt

----------------------------------------------------------------------------
(* Further properties of the chat methods, checked under SpecChat. *)

\* the turns the run in progress (or last finished) added to the conversation
\* it was started with: memory as it was, the date turn and the user turn
RunTurns == SubSeq(messages, Len(pre.memory) + 3, Len(messages))

\* the run record of the chat call that finished last, as handed to the logger
\* and, when the log file operation worked, as stored
WrittenRecord ==
    IF ioFault THEN run_log
    ELSE IF agent.kind = "Agent" THEN LastEntry(stores, AgentLogFile)
    ELSE LastEntry(stores, RedditLogFile).data

\* C25 (as the code has it): the tool_calls list of the run record of a chat
\* call that succeeded holds exactly the tool-result turns produced during that
\* run, in the order they were produced; the record of a chat call that failed
\* has an empty tool_calls list, whatever tool rounds ran before the failure;
\* no record holds a tool-result turn of an earlier chat call.
C25_ToolCallsOfThisRun ==
    CallFinished =>
        /\ exc = "" => WrittenRecord.tool_calls = logged_tool_calls(RunTurns)
        /\ exc # "" => WrittenRecord.tool_calls = <<>>
        /\ \A i \in 1..Len(WrittenRecord.tool_calls) :
              \A k \in 1..Len(pre.memory) :
                 ~(/\ pre.memory[k].role = "tool"
                   /\ pre.memory[k].tool_call_id = WrittenRecord.tool_calls[i].tool_call_id)

\* the second chat call of an agent ran tools, as the first had done, and its
\* stored record lists its own tool results only
C25_Witness ==
    /\ CallFinished
    /\ calls = 2
    /\ exc = ""
    /\ ~ioFault
    /\ agent.kind = "Agent"
    /\ Len(RunRecords(agent.kind, pre.stores)) = 1
    /\ Len(RunRecords(agent.kind, pre.stores)[1].tool_calls) >= 1
    /\ Len(WrittenRecord.tool_calls) >= 1
    /\ Len(logged_tool_calls(messages)) = Len(WrittenRecord.tool_calls)
    /\ WrittenRecord.tool_calls[1].tool_call_id > 1

\* C25 as stated: the tool_calls list of the run record of every chat call
\* holds exactly the tool-result turns produced during the run.
C25_ToolCallsAreRunsToolTurns ==
    CallFinished => WrittenRecord.tool_calls = logged_tool_calls(RunTurns)

\* the backend has been called in the chat call in progress or last finished
SubmittedInCall ==
    /\ calls > 0
    /\ \/ pc \in {"tools", "end", "raised", "idle"}
       \/ pc = "assistant" /\ rounds > 0

\* C26: a chat call whose run failed leaves memory as it was before the call,
\* followed by the date turn and the user turn, with no answer turn; a chat
\* call whose run succeeded leaves three more turns, the last one the answer;
\* and when memory ends with an unanswered user turn, the next chat call
\* submits a conversation that contains that turn, followed directly by the
\* new date turn.
C26_NoRollback ==
    /\ CallFinished =>
        /\ exc # "" => memory.self = pre.memory \o <<SystemMessage(DateText),
                                                     HumanMessage(run_log.user_message)>>
        /\ exc = "" => /\ Len(memory.self) = Len(pre.memory) + 3
                       /\ IsPrefix(pre.memory, memory.self)
                       /\ LastTurn(memory.self).role = "assistant"
    /\ (SubmittedInCall /\ LastTurn(pre.memory).role = "user") =>
        /\ IsPrefix(pre.memory, submitted)
        /\ submitted[Len(pre.memory) + 1] = SystemMessage(DateText)

\* the second chat call, made after a first call that failed, has submitted
\* the first call's user turn without an answer and has succeeded
C26_Witness ==
    /\ CallFinished
    /\ calls = 2
    /\ exc = ""
    /\ Len(pre.memory) = 3
    /\ pre.memory[3].role = "user"
    /\ submitted[3].role = "user"
    /\ submitted[4].role = "system"
    /\ Len(memory.self) = 6

\* the four platform names of the claim
NamedPlatforms == {"youtube", "tiktok", "article", "x"}

Requested == {cc.platforms[i] : i \in 1..Len(cc.platforms)}

\* C29: a requested platform whose name is not exactly one of the four gets no
\* entry in content or files; in a call that ends without error, the generation
\* tools invoked are those of the requested platforms with one of the four
\* names, in order, so none is invoked for another name; and a call whose
\* platforms all have other names invokes no tool in the loop, sets no error
\* (unless a log file operation fails) and is recorded with success = true.
C29_UnknownPlatformSkipped ==
    (CallFinished /\ agent.kind = "Content" /\ ret.status = "returned") =>
        LET named == SelectSeq(cc.platforms, LAMBDA p : p \in NamedPlatforms)
            generation == SelectSeq(cc.invoked, LAMBDA t : t # "save_content_to_file")
        IN  /\ \A p \in Requested \ NamedPlatforms :
                  /\ p \notin DOMAIN ret.value.content
                  /\ p \notin DOMAIN ret.value.files
            /\ "error" \notin DOMAIN ret.value =>
                  /\ Len(generation) = Len(named)
                  /\ \A i \in 1..Len(named) :
                        generation[i] = IF named[i] = "article" THEN "generate_article"
                                        ELSE IF named[i] = "x" THEN "generate_x_thread"
                                        ELSE "generate_platform_content"
            /\ (Requested \cap NamedPlatforms = {} /\ ~ioFault) =>
                  /\ cc.invoked = <<>>
                  /\ "error" \notin DOMAIN ret.value
                  /\ ret.value.content = EmptyMap
                  /\ ret.value.files = EmptyMap
                  /\ LastEntry(stores, ContentLogFile).log_type = "content_creation"
                  /\ LastEntry(stores, ContentLogFile).data.success = TRUE

\* a call for "YouTube" and "article" ended without error: one generation tool
\* was invoked, for the article, and "YouTube" has no entry
C29_Witness ==
    /\ CallFinished
    /\ agent.kind = "Content"
    /\ ret.status = "returned"
    /\ ~ioFault
    /\ cc.platforms = <<"YouTube", "article">>
    /\ "error" \notin DOMAIN ret.value
    /\ cc.invoked = <<"generate_article", "save_content_to_file">>
    /\ DOMAIN ret.value.content = {"article"}
    /\ LastEntry(stores, ContentLogFile).data.success = TRUE

\* C30: in a returned ContentResult the keys of files are keys of content, the
\* keys of content are requested platforms, and without an error field the two
\* key sets are the same.
C30_KeysNested ==
    (CallFinished /\ agent.kind = "Content" /\ ret.status = "returned") =>
        /\ DOMAIN ret.value.files \subseteq DOMAIN ret.value.content
        /\ DOMAIN ret.value.content \subseteq Requested
        /\ "error" \notin DOMAIN ret.value =>
              DOMAIN ret.value.files = DOMAIN ret.value.content

\* the save of the second platform's content raised: the result has the error
\* field, content for both platforms and a file entry for the first only
C30_Witness ==
    /\ CallFinished
    /\ agent.kind = "Content"
    /\ ret.status = "returned"
    /\ "error" \in DOMAIN ret.value
    /\ Len(cc.platforms) = 2
    /\ DOMAIN ret.value.content = Requested
    /\ DOMAIN ret.value.files = {cc.platforms[1]}
    /\ cc.platforms[1] # cc.platforms[2]

----------------------------------------------------------------------------
(* Session identifiers of the records, checked under Spec. *)

SessionStores == {RedditLogFile, ContentLogFile, ErrorLogFile}

\* the records of the stores written by ContentCreatorLogger, each with its place
StoredRecords == UNION {{<<f, i>> : i \in 1..Len(stores[f])} : f \in SessionStores}

\* C28: no stored record carries the session of the logger the agent made for
\* itself in its constructor, and no two stored records carry the same session:
\* every record is written by a logger made for that one write.
C28_OneSessionPerRecord ==
    /\ \A r \in StoredRecords : stores[r[1]][r[2]].session_id # agent.session_id
    /\ \A r, q \in StoredRecords :
          r # q => stores[r[1]][r[2]].session_id # stores[q[1]][q[2]].session_id

\* a create_content call has finished and left a research record and a run
\* record in its store, written under two sessions, neither the agent's own
C28_Witness ==
    /\ CallFinished
    /\ agent.kind = "Content"
    /\ Len(stores[ContentLogFile]) = 2
    /\ stores[ContentLogFile][1].log_type = "research"
    /\ stores[ContentLogFile][2].log_type = "content_creation"
    /\ stores[ContentLogFile][1].session_id # stores[ContentLogFile][2].session_id
    /\ stores[ContentLogFile][1].session_id # agent.session_id

====
